---- MODULE Spec2Model ----
(***************************************************************************)
(* The backtracking recursive-descent SQL parser of llamadb                *)
(* (src/src/sqlsyntax/parser/mod.rs).                                      *)
(*                                                                         *)
(* A token is a string.  A cursor (struct Tokens) is the number of tokens  *)
(* already consumed.  Every rule's parse function is an operator over      *)
(* (toks, p) that returns the RuleResult together with the position the    *)
(* `&mut Tokens` cursor is left at:                                        *)
(*   [kind, ctx, tok, pos, val]                                            *)
(* kind is "Ok", one of the three RuleError variants, or "Panic" (the      *)
(* unimplemented!() of member access, which unwinds through every caller). *)
(***************************************************************************)
EXTENDS Integers, Sequences, FiniteSets, TLC

VARIABLES
    tokens,          \* the token slice handed to the parser
    source,          \* Some(ast) when tokens were written out from ast, else None
    rule,            \* <<"parse">> for pub fn parse, else the rule whose function runs
    call,            \* which function of the rule has run ("none" before the call)
    min_precedence,  \* the threshold of a parse_precedence call
    entry,           \* the cursor position at the call
    pos,             \* the live cursor position
    out,             \* the returned RuleResult ("Pending" until the return)
    statements       \* the Vec<Statement> parse has built so far

vars == <<tokens, source, rule, call, min_precedence, entry, pos, out, statements>>

(***************************************************************************)
(* Tokens (lexer::Token).  Keywords and punctuation carry the names of the *)
(* enum variants; identifier, number and string tokens are their payload.  *)
(***************************************************************************)
IdentTokens == {"a", "b", "t", "id", "name", "INT", "TEXT"}

NumberTokens == {"1", "2", "3", "4"}

StringTokens == {"'s'"}

NoToken == "<none>"

Nothing == <<>>

(***************************************************************************)
(* RuleResult values.                                                      *)
(***************************************************************************)
Ok(v, p) == [kind |-> "Ok", ctx |-> "", tok |-> NoToken, pos |-> p, val |-> v]

Err(k, c, t, p) == [kind |-> k, ctx |-> c, tok |-> t, pos |-> p, val |-> Nothing]

Some(v) == <<"Some", v>>

None == <<"None">>

IsSome(o) == o[1] = "Some"

(***************************************************************************)
(* The token cursor (mod tokens).                                          *)
(***************************************************************************)
peek(toks, p) == IF p < Len(toks) THEN toks[p + 1] ELSE NoToken

pop(toks, p) ==
    IF p < Len(toks) THEN Ok(toks[p + 1], p + 1)
    ELSE Err("NoMoreTokens", "", NoToken, p)

pop_if_token(toks, p, t) == p < Len(toks) /\ toks[p + 1] = t

pop_if_ident(toks, p) == p < Len(toks) /\ toks[p + 1] \in IdentTokens

pop_if_string_literal(toks, p) == p < Len(toks) /\ toks[p + 1] \in StringTokens

pop_if_number(toks, p) == p < Len(toks) /\ toks[p + 1] \in NumberTokens

expecting(toks, p, c) == Err("ExpectingFirst", c, peek(toks, p), p)

pop_expecting(toks, p, t, c) ==
    IF pop_if_token(toks, p, t) THEN Ok(Nothing, p + 1) ELSE expecting(toks, p, c)

pop_ident_expecting(toks, p, c) ==
    IF pop_if_ident(toks, p) THEN Ok(toks[p + 1], p + 1) ELSE expecting(toks, p, c)

pop_number_expecting(toks, p, c) ==
    IF pop_if_number(toks, p) THEN Ok(toks[p + 1], p + 1) ELSE expecting(toks, p, c)

(***************************************************************************)
(* rule_result_not_first, and the macros try! and try_notfirst!: Try(r, K) *)
(* returns the error r from the enclosing function, or goes on with K(r).  *)
(***************************************************************************)
rule_result_not_first(r) ==
    IF r.kind = "ExpectingFirst" THEN [r EXCEPT !.kind = "Expecting"] ELSE r

Try(r, K(_)) == IF r.kind # "Ok" THEN r ELSE K(r)

TryNotFirst(r, K(_)) == Try(rule_result_not_first(r), K)

RECURSIVE Rule_parse(_, _, _)
RECURSIVE CommaDelimitedRule_loop(_, _, _, _)
RECURSIVE parse_series_loop(_, _, _, _)
RECURSIVE Expression_parse_precedence(_, _, _)
RECURSIVE Expression_precedence_loop(_, _, _, _, _)
RECURSIVE Expression_parse_beginning(_, _)

(***************************************************************************)
(* RuleExt.  parse_lookahead runs the rule on a copy of the cursor; the    *)
(* live cursor takes the copy's position only on success.                  *)
(***************************************************************************)
\* A lookahead that works on the live cursor instead of a copy.
lookahead_result_live(r, p) ==
    IF r.kind = "Ok" THEN Ok(Some(r.val), r.pos)
    ELSE IF r.kind = "ExpectingFirst" THEN Ok(None, r.pos)
    ELSE r

lookahead_result(r, p) ==
    IF r.kind = "Ok" THEN Ok(Some(r.val), r.pos)
    ELSE IF r.kind = "ExpectingFirst" THEN Ok(None, p)
    ELSE [r EXCEPT !.pos = p]

parse_lookahead(R, toks, p) == lookahead_result(Rule_parse(R, toks, p), p)

\* A series that stops after its first item.
parse_series_loop_once(R, toks, p, v) ==
    Try(parse_lookahead(R, toks, p), LAMBDA r:
        IF IsSome(r.val) THEN Ok(Append(v, r.val[2]), r.pos)
        ELSE Ok(v, p))

parse_series_loop(R, toks, p, v) ==
    Try(parse_lookahead(R, toks, p), LAMBDA r:
        IF IsSome(r.val) THEN parse_series_loop(R, toks, r.pos, Append(v, r.val[2]))
        ELSE Ok(v, p))

parse_series(R, toks, p) == parse_series_loop(R, toks, p, <<>>)

(***************************************************************************)
(* CommaDelimitedRule<R>, ParensSurroundRule<R>                            *)
(***************************************************************************)
\* A comma loop that uses try! where the code uses try_notfirst!.
CommaDelimitedRule_loop_try(R, toks, p, v) ==
    IF pop_if_token(toks, p, "Comma")
    THEN Try(Rule_parse(R, toks, p + 1), LAMBDA r:
             CommaDelimitedRule_loop(R, toks, r.pos, Append(v, r.val)))
    ELSE Ok(v, p)

CommaDelimitedRule_loop(R, toks, p, v) ==
    IF pop_if_token(toks, p, "Comma")
    THEN TryNotFirst(Rule_parse(R, toks, p + 1), LAMBDA r:
             CommaDelimitedRule_loop(R, toks, r.pos, Append(v, r.val)))
    ELSE Ok(v, p)

CommaDelimitedRule_parse(R, toks, p) ==
    Try(Rule_parse(R, toks, p), LAMBDA r:
        CommaDelimitedRule_loop(R, toks, r.pos, <<r.val>>))

ParensSurroundRule_parse(R, toks, p) ==
    Try(pop_expecting(toks, p, "LeftParen", "("), LAMBDA l:
    TryNotFirst(Rule_parse(R, toks, l.pos), LAMBDA r:
    TryNotFirst(pop_expecting(toks, r.pos, "RightParen", ")"), LAMBDA c:
    Ok(r.val, c.pos))))

Ident_parse(toks, p) == pop_ident_expecting(toks, p, "identifier")

(***************************************************************************)
(* BinaryOp, UnaryOp                                                       *)
(***************************************************************************)
BinaryOpTokens ==
    {"Equal", "NotEqual", "LessThan", "LessThanOrEqual", "GreaterThan",
     "GreaterThanOrEqual", "And", "Or", "Plus", "Minus", "Asterisk",
     "Ampersand", "Pipe", "DoublePipe"}

BinaryOp_of(t) ==
    CASE t = "Plus" -> "Add"
      [] t = "Minus" -> "Subtract"
      [] t = "Asterisk" -> "Multiply"
      [] t = "Ampersand" -> "BitAnd"
      [] t = "Pipe" -> "BitOr"
      [] t = "DoublePipe" -> "Concatenate"
      [] OTHER -> t

BinaryOp_parse(toks, p) ==
    Try(pop(toks, p), LAMBDA t:
        IF t.val \in BinaryOpTokens THEN Ok(BinaryOp_of(t.val), t.pos)
        ELSE expecting(toks, t.pos, "binary operator"))

UnaryOp_precedence == 6

BinaryOp_precedence(op) ==
    CASE op = "Multiply" -> 5
      [] op \in {"Add", "Subtract", "BitAnd", "BitOr", "Concatenate"} -> 4
      [] op \in {"Equal", "NotEqual", "LessThan", "LessThanOrEqual",
                 "GreaterThan", "GreaterThanOrEqual"} -> 3
      [] op = "And" -> 2
      [] op = "Or" -> 1

(***************************************************************************)
(* Expression: precedence climbing                                         *)
(***************************************************************************)
\* An operator loop that parses the right operand at the operator's own
\* binding power instead of one above it.
Expression_precedence_loop_same(toks, p, min_prec, expr, prev_tokens) ==
    TryNotFirst(parse_lookahead(<<"BinaryOp">>, toks, p), LAMBDA b:
        IF ~IsSome(b.val) THEN Ok(expr, p)
        ELSE IF BinaryOp_precedence(b.val[2]) >= min_prec
        THEN TryNotFirst(Expression_parse_precedence(toks, b.pos,
                             BinaryOp_precedence(b.val[2])), LAMBDA rhs:
                 Expression_precedence_loop(toks, rhs.pos, min_prec,
                     <<"BinaryOp", b.val[2], expr, rhs.val>>, rhs.pos))
        ELSE Ok(expr, prev_tokens))

Expression_precedence_loop(toks, p, min_prec, expr, prev_tokens) ==
    TryNotFirst(parse_lookahead(<<"BinaryOp">>, toks, p), LAMBDA b:
        IF ~IsSome(b.val) THEN Ok(expr, p)
        ELSE IF BinaryOp_precedence(b.val[2]) >= min_prec
        THEN TryNotFirst(Expression_parse_precedence(toks, b.pos,
                             BinaryOp_precedence(b.val[2]) + 1), LAMBDA rhs:
                 Expression_precedence_loop(toks, rhs.pos, min_prec,
                     <<"BinaryOp", b.val[2], expr, rhs.val>>, rhs.pos))
        ELSE Ok(expr, prev_tokens))

Expression_parse_precedence(toks, p, min_prec) ==
    Try(Expression_parse_beginning(toks, p), LAMBDA e:
        Expression_precedence_loop(toks, e.pos, min_prec, e.val, e.pos))

Expression_parse(toks, p) == Expression_parse_precedence(toks, p, 0)

Expression_function_call(toks, p, ident) ==
    IF pop_if_token(toks, p, "Asterisk")
    THEN TryNotFirst(pop_expecting(toks, p + 1, "RightParen",
                         ") after aggregate asterisk. e.g. (*)"), LAMBDA c:
             Ok(<<"FunctionCallAggregateAll", ident>>, c.pos))
    ELSE TryNotFirst(CommaDelimitedRule_parse(<<"Expression">>, toks, p), LAMBDA a:
         TryNotFirst(pop_expecting(toks, a.pos, "RightParen",
                         ") after function arguments"), LAMBDA c:
             Ok(<<"FunctionCall", ident, a.val>>, c.pos)))

Expression_parse_ident(toks, p) ==
    IF pop_if_token(toks, p + 1, "LeftParen")
    THEN Expression_function_call(toks, p + 2, toks[p + 1])
    ELSE IF pop_if_token(toks, p + 1, "Dot")
    THEN Err("Panic", "not implemented", NoToken, p + 2)
    ELSE Ok(<<"Ident", toks[p + 1]>>, p + 1)

\* A beginning that parses the operand of `-` at threshold 0.
Expression_parse_beginning_loose(toks, p) ==
    IF pop_if_token(toks, p, "Plus")
    THEN rule_result_not_first(
             Expression_parse_precedence(toks, p + 1, UnaryOp_precedence))
    ELSE IF pop_if_token(toks, p, "Minus")
    THEN TryNotFirst(Expression_parse_precedence(toks, p + 1, 0),
             LAMBDA e: Ok(<<"UnaryOp", "Negate", e.val>>, e.pos))
    ELSE Try(parse_lookahead(<<"ParensSurroundRule", "Expression">>, toks, p),
             LAMBDA enc:
                 IF IsSome(enc.val) THEN Ok(enc.val[2], enc.pos)
                 ELSE IF pop_if_ident(toks, p) THEN Expression_parse_ident(toks, p)
                 ELSE IF pop_if_string_literal(toks, p)
                 THEN Ok(<<"StringLiteral", toks[p + 1]>>, p + 1)
                 ELSE IF pop_if_number(toks, p)
                 THEN Ok(<<"Number", toks[p + 1]>>, p + 1)
                 ELSE expecting(toks, p, "identifier or number"))
Expression_parse_beginning(toks, p) ==
    IF pop_if_token(toks, p, "Plus")
    THEN rule_result_not_first(
             Expression_parse_precedence(toks, p + 1, UnaryOp_precedence))
    ELSE IF pop_if_token(toks, p, "Minus")
    THEN TryNotFirst(Expression_parse_precedence(toks, p + 1, UnaryOp_precedence),
             LAMBDA e: Ok(<<"UnaryOp", "Negate", e.val>>, e.pos))
    ELSE Try(parse_lookahead(<<"ParensSurroundRule", "Expression">>, toks, p),
             LAMBDA enc:
                 IF IsSome(enc.val) THEN Ok(enc.val[2], enc.pos)
                 ELSE IF pop_if_ident(toks, p) THEN Expression_parse_ident(toks, p)
                 ELSE IF pop_if_string_literal(toks, p)
                 THEN Ok(<<"StringLiteral", toks[p + 1]>>, p + 1)
                 ELSE IF pop_if_number(toks, p)
                 THEN Ok(<<"Number", toks[p + 1]>>, p + 1)
                 ELSE expecting(toks, p, "identifier or number"))

(***************************************************************************)
(* Statement grammars                                                      *)
(***************************************************************************)
\* An alias rule that takes an alias only after the AS keyword.
AsAlias_parse_keyword(toks, p) ==
    Try(pop_expecting(toks, p, "As", "as keyword"), LAMBDA k:
        rule_result_not_first(
            pop_ident_expecting(toks, k.pos, "alias after as keyword")))

AsAlias_parse(toks, p) ==
    IF pop_if_token(toks, p, "As")
    THEN rule_result_not_first(
             pop_ident_expecting(toks, p + 1, "alias after as keyword"))
    ELSE pop_ident_expecting(toks, p, "alias name or as keyword")

Table_parse(toks, p) ==
    Try(pop_ident_expecting(toks, p, "table name"), LAMBDA n:
        Ok(<<"Table", None, n.val>>, n.pos))

TableOrSubquery_alias(toks, p, tag, v) ==
    TryNotFirst(parse_lookahead(<<"AsAlias">>, toks, p), LAMBDA a:
        Ok(<<tag, v, a.val>>, a.pos))

TableOrSubquery_parse(toks, p) ==
    Try(parse_lookahead(<<"ParensSurroundRule", "SelectStatement">>, toks, p),
        LAMBDA s:
            IF IsSome(s.val) THEN TableOrSubquery_alias(toks, s.pos, "Subquery", s.val[2])
            ELSE Try(parse_lookahead(<<"Table">>, toks, p), LAMBDA t:
                     IF IsSome(t.val)
                     THEN TableOrSubquery_alias(toks, t.pos, "Table", t.val[2])
                     ELSE expecting(toks, p, "subquery or table name")))

SelectColumn_parse(toks, p) ==
    IF pop_if_token(toks, p, "Asterisk") THEN Ok(<<"AllColumns">>, p + 1)
    ELSE Try(parse_lookahead(<<"Expression">>, toks, p), LAMBDA e:
             IF IsSome(e.val)
             THEN TryNotFirst(parse_lookahead(<<"AsAlias">>, toks, e.pos), LAMBDA a:
                      Ok(<<"Expr", e.val[2], a.val>>, a.pos))
             ELSE expecting(toks, p, "* or expression for SELECT column"))

From_parse(toks, p) ==
    Try(pop_expecting(toks, p, "From", "FROM"), LAMBDA f:
    TryNotFirst(CommaDelimitedRule_parse(<<"TableOrSubquery">>, toks, f.pos), LAMBDA t:
    Ok(<<"Cross", t.val>>, t.pos)))

SelectStatement_where(toks, p) ==
    IF pop_if_token(toks, p, "Where")
    THEN TryNotFirst(Expression_parse(toks, p + 1), LAMBDA e: Ok(Some(e.val), e.pos))
    ELSE Ok(None, p)

\* A SELECT rule that takes HAVING whether or not GROUP BY came before it.
SelectStatement_group_by_any(toks, p) ==
    IF pop_if_token(toks, p, "Group")
    THEN TryNotFirst(pop_expecting(toks, p + 1, "By", "BY after GROUP"), LAMBDA b:
         TryNotFirst(CommaDelimitedRule_parse(<<"Expression">>, toks, b.pos), LAMBDA g:
             IF pop_if_token(toks, g.pos, "Having")
             THEN TryNotFirst(Expression_parse(toks, g.pos + 1), LAMBDA h:
                      Ok(<<g.val, Some(h.val)>>, h.pos))
             ELSE Ok(<<g.val, None>>, g.pos)))
    ELSE IF pop_if_token(toks, p, "Having")
    THEN TryNotFirst(Expression_parse(toks, p + 1), LAMBDA h:
             Ok(<<<<>>, Some(h.val)>>, h.pos))
    ELSE Ok(<<<<>>, None>>, p)
SelectStatement_group_by(toks, p) ==
    IF pop_if_token(toks, p, "Group")
    THEN TryNotFirst(pop_expecting(toks, p + 1, "By", "BY after GROUP"), LAMBDA b:
         TryNotFirst(CommaDelimitedRule_parse(<<"Expression">>, toks, b.pos), LAMBDA g:
             IF pop_if_token(toks, g.pos, "Having")
             THEN TryNotFirst(Expression_parse(toks, g.pos + 1), LAMBDA h:
                      Ok(<<g.val, Some(h.val)>>, h.pos))
             ELSE Ok(<<g.val, None>>, g.pos)))
    ELSE Ok(<<<<>>, None>>, p)

\* A SELECT rule that uses try! on its column list.
SelectStatement_parse_try(toks, p) ==
    Try(pop_expecting(toks, p, "Select", "SELECT"), LAMBDA s:
    Try(CommaDelimitedRule_parse(<<"SelectColumn">>, toks, s.pos), LAMBDA c:
    TryNotFirst(From_parse(toks, c.pos), LAMBDA f:
    Try(SelectStatement_where(toks, f.pos), LAMBDA w:
    Try(SelectStatement_group_by(toks, w.pos), LAMBDA g:
    Ok([result_columns |-> c.val, from |-> f.val, where_expr |-> w.val,
        group_by |-> g.val[1], having |-> g.val[2]], g.pos))))))

SelectStatement_parse(toks, p) ==
    Try(pop_expecting(toks, p, "Select", "SELECT"), LAMBDA s:
    TryNotFirst(CommaDelimitedRule_parse(<<"SelectColumn">>, toks, s.pos), LAMBDA c:
    TryNotFirst(From_parse(toks, c.pos), LAMBDA f:
    Try(SelectStatement_where(toks, f.pos), LAMBDA w:
    Try(SelectStatement_group_by(toks, w.pos), LAMBDA g:
    Ok([result_columns |-> c.val, from |-> f.val, where_expr |-> w.val,
        group_by |-> g.val[1], having |-> g.val[2]], g.pos))))))

InsertSource_parse(toks, p) ==
    IF pop_if_token(toks, p, "Values")
    THEN TryNotFirst(Rule_parse(<<"CommaDelimitedRule", "ParensSurroundRule",
                                  "CommaDelimitedRule", "Expression">>, toks, p + 1),
             LAMBDA v: Ok(<<"Values", v.val>>, v.pos))
    ELSE Try(parse_lookahead(<<"SelectStatement">>, toks, p), LAMBDA s:
             IF IsSome(s.val) THEN Ok(<<"Select", s.val[2]>>, s.pos)
             ELSE expecting(toks, p, "VALUES or SELECT"))

InsertStatement_parse(toks, p) ==
    Try(pop_expecting(toks, p, "Insert", "INSERT"), LAMBDA i:
    TryNotFirst(pop_expecting(toks, i.pos, "Into", "INTO"), LAMBDA n:
    TryNotFirst(Table_parse(toks, n.pos), LAMBDA t:
    TryNotFirst(parse_lookahead(<<"ParensSurroundRule", "CommaDelimitedRule", "Ident">>,
                    toks, t.pos), LAMBDA c:
    TryNotFirst(InsertSource_parse(toks, c.pos), LAMBDA s:
    Ok([table |-> t.val, into_columns |-> c.val, source |-> s.val], s.pos))))))

CreateTableColumnConstraintType_parse(toks, p) ==
    IF pop_if_token(toks, p, "Primary")
    THEN TryNotFirst(pop_expecting(toks, p + 1, "Key", "KEY after PRIMARY"),
             LAMBDA k: Ok(<<"PrimaryKey">>, k.pos))
    ELSE IF pop_if_token(toks, p, "Unique") THEN Ok(<<"Unique">>, p + 1)
    ELSE IF pop_if_token(toks, p, "Null") THEN Ok(<<"Nullable">>, p + 1)
    ELSE IF pop_if_token(toks, p, "References")
    THEN TryNotFirst(Table_parse(toks, p + 1), LAMBDA t:
         TryNotFirst(parse_lookahead(
                         <<"ParensSurroundRule", "CommaDelimitedRule", "Ident">>,
                         toks, t.pos), LAMBDA c:
             Ok(<<"ForeignKey", t.val, c.val>>, c.pos)))
    ELSE expecting(toks, p, "column constraint")

CreateTableColumnConstraint_parse(toks, p) ==
    IF pop_if_token(toks, p, "Constraint")
    THEN TryNotFirst(pop_ident_expecting(toks, p + 1,
                         "constraint name after CONSTRAINT"), LAMBDA n:
         TryNotFirst(CreateTableColumnConstraintType_parse(toks, n.pos), LAMBDA c:
             Ok([name |-> Some(n.val), constraint |-> c.val], c.pos)))
    ELSE Try(CreateTableColumnConstraintType_parse(toks, p), LAMBDA c:
             Ok([name |-> None, constraint |-> c.val], c.pos))

CreateTableColumn_type_size(toks, p) ==
    IF pop_if_token(toks, p, "LeftParen")
    THEN Try(pop_number_expecting(toks, p + 1, "column type size"), LAMBDA x:
         Try(pop_expecting(toks, x.pos, "RightParen", ")"), LAMBDA c:
             Ok(Some(x.val), c.pos)))
    ELSE Ok(None, p)

CreateTableColumn_type_array_size(toks, p) ==
    IF pop_if_token(toks, p, "LeftBracket")
    THEN IF pop_if_token(toks, p + 1, "RightBracket") THEN Ok(Some(None), p + 2)
         ELSE Try(pop_number_expecting(toks, p + 1, "column array size"), LAMBDA x:
              Try(pop_expecting(toks, x.pos, "RightBracket", "]"), LAMBDA c:
                  Ok(Some(Some(x.val)), c.pos)))
    ELSE Ok(None, p)

CreateTableColumn_parse(toks, p) ==
    Try(pop_ident_expecting(toks, p, "column name"), LAMBDA n:
    TryNotFirst(pop_ident_expecting(toks, n.pos, "type name"), LAMBDA t:
    Try(CreateTableColumn_type_size(toks, t.pos), LAMBDA s:
    Try(CreateTableColumn_type_array_size(toks, s.pos), LAMBDA a:
    TryNotFirst(parse_series(<<"CreateTableColumnConstraint">>, toks, a.pos), LAMBDA c:
    Ok([column_name |-> n.val, type_name |-> t.val, type_size |-> s.val,
        type_array_size |-> a.val, constraints |-> c.val], c.pos))))))

CreateTableStatement_parse(toks, p) ==
    Try(pop_expecting(toks, p, "Table", "TABLE"), LAMBDA k:
    TryNotFirst(Table_parse(toks, k.pos), LAMBDA t:
    TryNotFirst(pop_expecting(toks, t.pos, "LeftParen", "( after table name"), LAMBDA l:
    TryNotFirst(CommaDelimitedRule_parse(<<"CreateTableColumn">>, toks, l.pos), LAMBDA c:
    TryNotFirst(pop_expecting(toks, c.pos, "RightParen",
                    ") after table columns and constraints"), LAMBDA r:
    Ok([table |-> t.val, columns |-> c.val], r.pos))))))

CreateStatement_parse(toks, p) ==
    Try(pop_expecting(toks, p, "Create", "CREATE"), LAMBDA c:
    TryNotFirst(parse_lookahead(<<"CreateTableStatement">>, toks, c.pos), LAMBDA s:
        IF IsSome(s.val) THEN Ok(<<"Table", s.val[2]>>, s.pos)
        ELSE expecting(toks, c.pos, "TABLE")))

Statement_alternation(toks, p) ==
    Try(parse_lookahead(<<"SelectStatement">>, toks, p), LAMBDA s:
        IF IsSome(s.val) THEN Ok(Some(<<"Select", s.val[2]>>), s.pos)
        ELSE
    Try(parse_lookahead(<<"InsertStatement">>, toks, p), LAMBDA i:
        IF IsSome(i.val) THEN Ok(Some(<<"Insert", i.val[2]>>), i.pos)
        ELSE
    Try(parse_lookahead(<<"CreateStatement">>, toks, p), LAMBDA c:
        IF IsSome(c.val) THEN Ok(Some(<<"Create", c.val[2]>>), c.pos)
        ELSE Ok(None, p))))

\* A statement rule that accepts the empty statement without taking its `;`.
Statement_parse_peek(toks, p) ==
    Try(Statement_alternation(toks, p), LAMBDA s:
        IF IsSome(s.val)
        THEN TryNotFirst(pop_expecting(toks, s.pos, "Semicolon", "semicolon"),
                 LAMBDA e: Ok(s.val, e.pos))
        ELSE Try(pop_expecting(toks, p, "Semicolon", "semicolon"),
                 LAMBDA e: Ok(None, p)))

Statement_parse(toks, p) ==
    Try(Statement_alternation(toks, p), LAMBDA s:
        IF IsSome(s.val)
        THEN TryNotFirst(pop_expecting(toks, s.pos, "Semicolon", "semicolon"),
                 LAMBDA e: Ok(s.val, e.pos))
        ELSE Try(pop_expecting(toks, p, "Semicolon", "semicolon"),
                 LAMBDA e: Ok(None, e.pos)))

(***************************************************************************)
(* <R as Rule>::parse.  A rule is the sequence of its type constructors:   *)
(* ParensSurroundRule<CommaDelimitedRule<Ident>> is                        *)
(* <<"ParensSurroundRule", "CommaDelimitedRule", "Ident">>.                *)
(***************************************************************************)
Rule_parse(R, toks, p) ==
    CASE R[1] = "CommaDelimitedRule" -> CommaDelimitedRule_parse(Tail(R), toks, p)
      [] R[1] = "ParensSurroundRule" -> ParensSurroundRule_parse(Tail(R), toks, p)
      [] R[1] = "Ident" -> Ident_parse(toks, p)
      [] R[1] = "BinaryOp" -> BinaryOp_parse(toks, p)
      [] R[1] = "Expression" -> Expression_parse(toks, p)
      [] R[1] = "AsAlias" -> AsAlias_parse(toks, p)
      [] R[1] = "Table" -> Table_parse(toks, p)
      [] R[1] = "TableOrSubquery" -> TableOrSubquery_parse(toks, p)
      [] R[1] = "SelectColumn" -> SelectColumn_parse(toks, p)
      [] R[1] = "SelectStatement" -> SelectStatement_parse(toks, p)
      [] R[1] = "From" -> From_parse(toks, p)
      [] R[1] = "InsertStatement" -> InsertStatement_parse(toks, p)
      [] R[1] = "InsertSource" -> InsertSource_parse(toks, p)
      [] R[1] = "CreateTableColumnConstraint" ->
             CreateTableColumnConstraint_parse(toks, p)
      [] R[1] = "CreateTableColumnConstraintType" ->
             CreateTableColumnConstraintType_parse(toks, p)
      [] R[1] = "CreateTableColumn" -> CreateTableColumn_parse(toks, p)
      [] R[1] = "CreateTableStatement" -> CreateTableStatement_parse(toks, p)
      [] R[1] = "CreateStatement" -> CreateStatement_parse(toks, p)
      [] R[1] = "Statement" -> Statement_parse(toks, p)

(***************************************************************************)
(* Inputs.  SeqsUpTo(A, n): every token sequence over A of length <= n.    *)
(***************************************************************************)
SeqsUpTo(A, n) == UNION {[1..k -> A] : k \in 0..n}

MaxLen == 4

MaxStmts == 2

DriverAlphabet == {"Select", "Asterisk", "From", "t", "Semicolon", "Create", "Table"}

\* What may follow SELECT * FROM t: the clause keywords in every order.
MaxTail == 4

ClauseAlphabet == {"Where", "Group", "By", "Having", "a", "Semicolon"}

(***************************************************************************)
(* Syntax trees and the token sequences that write them out, following the *)
(* grammar of the statements: the inputs that are valid by construction.   *)
(***************************************************************************)
TokenOf(op) ==
    CASE op = "Add" -> "Plus"
      [] op = "Subtract" -> "Minus"
      [] op = "Multiply" -> "Asterisk"
      [] op = "BitAnd" -> "Ampersand"
      [] op = "BitOr" -> "Pipe"
      [] op = "Concatenate" -> "DoublePipe"
      [] OTHER -> op

RECURSIVE Flatten(_)
Flatten(ss) == IF ss = <<>> THEN <<>> ELSE Head(ss) \o Flatten(Tail(ss))

RECURSIVE JoinComma(_)
JoinComma(ss) ==
    IF Len(ss) = 1 THEN ss[1] ELSE ss[1] \o <<"Comma">> \o JoinComma(Tail(ss))

Parens(ts) == <<"LeftParen">> \o ts \o <<"RightParen">>

RECURSIVE WriteExpr(_)
WriteOperand(e) == IF e[1] = "BinaryOp" THEN Parens(WriteExpr(e)) ELSE WriteExpr(e)

WriteExpr(e) ==
    CASE e[1] \in {"Ident", "Number", "StringLiteral"} -> <<e[2]>>
      [] e[1] = "UnaryOp" -> <<"Minus">> \o WriteOperand(e[3])
      [] e[1] = "BinaryOp" -> WriteOperand(e[3]) \o <<TokenOf(e[2])>> \o WriteOperand(e[4])
      [] e[1] = "FunctionCallAggregateAll" -> <<e[2]>> \o Parens(<<"Asterisk">>)
      [] e[1] = "FunctionCall" ->
             <<e[2]>> \o Parens(JoinComma([i \in 1..Len(e[3]) |-> WriteExpr(e[3][i])]))

WriteExprs(es) == JoinComma([i \in 1..Len(es) |-> WriteExpr(es[i])])

WriteAlias(a, as) == IF IsSome(a) THEN as \o <<a[2]>> ELSE <<>>

WriteColumn(c) ==
    IF c[1] = "AllColumns" THEN <<"Asterisk">>
    ELSE WriteExpr(c[2]) \o WriteAlias(c[3], <<"As">>)

RECURSIVE WriteSelect(_)
WriteTableOrSubquery(t) ==
    IF t[1] = "Table" THEN <<t[2][3]>> \o WriteAlias(t[3], <<>>)
    ELSE Parens(WriteSelect(t[2])) \o WriteAlias(t[3], <<"As">>)

WriteSelect(s) ==
    <<"Select">>
    \o JoinComma([i \in 1..Len(s.result_columns) |-> WriteColumn(s.result_columns[i])])
    \o <<"From">>
    \o JoinComma([i \in 1..Len(s.from[2]) |-> WriteTableOrSubquery(s.from[2][i])])
    \o (IF IsSome(s.where_expr) THEN <<"Where">> \o WriteExpr(s.where_expr[2]) ELSE <<>>)
    \o (IF s.group_by # <<>> THEN <<"Group", "By">> \o WriteExprs(s.group_by) ELSE <<>>)
    \o (IF IsSome(s.having) THEN <<"Having">> \o WriteExpr(s.having[2]) ELSE <<>>)

WriteInsert(i) ==
    <<"Insert", "Into", i.table[3]>>
    \o (IF IsSome(i.into_columns)
        THEN Parens(JoinComma([k \in 1..Len(i.into_columns[2]) |-> <<i.into_columns[2][k]>>]))
        ELSE <<>>)
    \o (IF i.source[1] = "Values"
        THEN <<"Values">> \o JoinComma([k \in 1..Len(i.source[2]) |->
                                           Parens(WriteExprs(i.source[2][k]))])
        ELSE WriteSelect(i.source[2]))

WriteConstraint(c) ==
    (IF IsSome(c.name) THEN <<"Constraint", c.name[2]>> ELSE <<>>)
    \o (CASE c.constraint[1] = "PrimaryKey" -> <<"Primary", "Key">>
          [] c.constraint[1] = "Unique" -> <<"Unique">>
          [] c.constraint[1] = "Nullable" -> <<"Null">>
          [] c.constraint[1] = "ForeignKey" ->
                 <<"References", c.constraint[2][3]>>
                 \o (IF IsSome(c.constraint[3])
                     THEN Parens(JoinComma([k \in 1..Len(c.constraint[3][2]) |->
                                               <<c.constraint[3][2][k]>>]))
                     ELSE <<>>))

WriteConstraints(cs) == Flatten([i \in 1..Len(cs) |-> WriteConstraint(cs[i])])

WriteCreateTableColumn(c) ==
    <<c.column_name, c.type_name>>
    \o (IF IsSome(c.type_size) THEN Parens(<<c.type_size[2]>>) ELSE <<>>)
    \o (IF ~IsSome(c.type_array_size) THEN <<>>
        ELSE IF ~IsSome(c.type_array_size[2]) THEN <<"LeftBracket", "RightBracket">>
        ELSE <<"LeftBracket", c.type_array_size[2][2], "RightBracket">>)
    \o WriteConstraints(c.constraints)

WriteCreateTable(t) ==
    <<"Table", t.table[3]>>
    \o Parens(JoinComma([i \in 1..Len(t.columns) |-> WriteCreateTableColumn(t.columns[i])]))

\* One item of a program: a statement and its `;`, or a bare `;`.
WriteItem(st) ==
    (CASE st[1] = "Select" -> WriteSelect(st[2])
       [] st[1] = "Insert" -> WriteInsert(st[2])
       [] st[1] = "Create" -> <<"Create">> \o WriteCreateTable(st[2][2])
       [] st[1] = "Empty" -> <<>>)
    \o <<"Semicolon">>

WriteProgram(items) == Flatten([i \in 1..Len(items) |-> WriteItem(items[i])])

ExprA == <<"Ident", "a">>

ExprB == <<"Ident", "b">>

ExprEq == <<"BinaryOp", "Equal", ExprA, <<"Number", "1">>>>

TableT == <<"Table", None, "t">>

SelectAll ==
    [result_columns |-> <<<<"AllColumns">>>>,
     from |-> <<"Cross", <<<<"Table", TableT, None>>>>>>,
     where_expr |-> None, group_by |-> <<>>, having |-> None]

Selects ==
    {[result_columns |-> c, from |-> <<"Cross", f>>, where_expr |-> wg[1],
      group_by |-> wg[2], having |-> wg[3]] :
        c \in {<<<<"AllColumns">>>>,
               <<<<"Expr", ExprA, Some("b")>>,
                 <<"Expr", <<"FunctionCallAggregateAll", "a">>, None>>>>},
        f \in {<<<<"Table", TableT, None>>>>,
               <<<<"Table", TableT, Some("a")>>, <<"Subquery", SelectAll, Some("b")>>>>},
        wg \in {<<None, <<>>, None>>,
                <<Some(ExprEq), <<ExprA, <<"FunctionCall", "a", <<ExprB, ExprEq>>>>>>,
                  Some(ExprEq)>>}}

Inserts ==
    {[table |-> TableT, into_columns |-> None,
      source |-> <<"Values", <<<<<<"Number", "1">>, <<"Number", "2">>>>,
                               <<<<"Number", "3">>, <<"Number", "4">>>>>>>>],
     [table |-> TableT, into_columns |-> Some(<<"a", "b">>),
      source |-> <<"Select", SelectAll>>]}

Constraint(n, c) == [name |-> n, constraint |-> c]

Column(n, t, s, a, cs) ==
    [column_name |-> n, type_name |-> t, type_size |-> s, type_array_size |-> a,
     constraints |-> cs]

Creates ==
    {[table |-> TableT, columns |-> cs] :
        cs \in {<<Column("id", "INT", None, None, <<Constraint(None, <<"PrimaryKey">>)>>),
                  Column("name", "TEXT", None, None, <<Constraint(None, <<"Nullable">>)>>)>>,
                <<Column("a", "INT", Some("3"), Some(None), <<>>)>>,
                <<Column("a", "TEXT", None, Some(Some("2")),
                         <<Constraint(Some("b"), <<"Unique">>),
                           Constraint(None, <<"ForeignKey", TableT, Some(<<"a", "b">>)>>),
                           Constraint(None, <<"ForeignKey", TableT, None>>)>>)>>}}

Items ==
    {<<"Select", s>> : s \in Selects} \cup {<<"Insert", i>> : i \in Inserts}
    \cup {<<"Create", <<"Table", c>>>> : c \in Creates} \cup {<<"Empty">>}

Programs == SeqsUpTo(Items, MaxStmts)

Pending == [kind |-> "Pending", ctx |-> "", tok |-> NoToken, pos |-> 0, val |-> Nothing]

(***************************************************************************)
(* Init: a call of pub fn parse on a token slice, which is any short       *)
(* sequence of tokens or a written-out program.                            *)
(***************************************************************************)
InitRest ==
    /\ call = "none"
    /\ pos = entry
    /\ min_precedence = 0
    /\ out = [Pending EXCEPT !.pos = entry]
    /\ statements = <<>>

InitParse ==
    /\ rule = <<"parse">>
    /\ entry = 0
    /\ \/ /\ tokens \in SeqsUpTo(DriverAlphabet, MaxLen)
          /\ source = None
       \/ \E prog \in Programs :
              /\ tokens = WriteProgram(prog)
              /\ source = Some(prog)
       \/ /\ tokens \in {<<"Select", "Asterisk", "From", "t">> \o tail :
                              tail \in SeqsUpTo(ClauseAlphabet, MaxTail)}
          /\ source = None

Init == InitParse /\ InitRest

(***************************************************************************)
(* pub fn parse: one iteration of its while-let loop per step.             *)
(***************************************************************************)
parse_iterate ==
    /\ rule = <<"parse">>
    /\ out.kind = "Pending"
    /\ LET r == parse_lookahead(<<"Statement">>, tokens, pos)
       IN  /\ r.kind = "Ok"
           /\ IsSome(r.val)
           /\ pos' = r.pos
           /\ statements' = IF IsSome(r.val[2]) THEN Append(statements, r.val[2][2])
                            ELSE statements
    /\ call' = "parse"
    /\ UNCHANGED <<tokens, source, rule, min_precedence, entry, out>>

parse_return_ok ==
    /\ rule = <<"parse">>
    /\ out.kind = "Pending"
    /\ LET r == parse_lookahead(<<"Statement">>, tokens, pos)
       IN  /\ r.kind = "Ok"
           /\ ~IsSome(r.val)
           /\ out' = Ok(statements, pos)
    /\ call' = "parse"
    /\ UNCHANGED <<tokens, source, rule, min_precedence, entry, pos, statements>>

parse_return_err ==
    /\ rule = <<"parse">>
    /\ out.kind = "Pending"
    /\ LET r == parse_lookahead(<<"Statement">>, tokens, pos)
       IN  /\ r.kind # "Ok"
           /\ out' = r
    /\ call' = "parse"
    /\ UNCHANGED <<tokens, source, rule, min_precedence, entry, pos, statements>>

Next == parse_iterate \/ parse_return_ok \/ parse_return_err

Spec == Init /\ [][Next]_vars

(***************************************************************************)
(* The rules' functions called on their own: the instantiations of Rule    *)
(* that occur in the parser, each on a cursor at position entry.           *)
(***************************************************************************)
Rules ==
    {<<"Ident">>, <<"BinaryOp">>, <<"Expression">>, <<"AsAlias">>, <<"Table">>,
     <<"TableOrSubquery">>, <<"SelectColumn">>, <<"SelectStatement">>, <<"From">>,
     <<"InsertStatement">>, <<"InsertSource">>, <<"CreateTableColumnConstraint">>,
     <<"CreateTableColumnConstraintType">>, <<"CreateTableColumn">>,
     <<"CreateTableStatement">>, <<"CreateStatement">>, <<"Statement">>,
     <<"CommaDelimitedRule", "SelectColumn">>,
     <<"CommaDelimitedRule", "TableOrSubquery">>,
     <<"CommaDelimitedRule", "Expression">>,
     <<"CommaDelimitedRule", "CreateTableColumn">>,
     <<"CommaDelimitedRule", "Ident">>,
     <<"ParensSurroundRule", "Expression">>,
     <<"ParensSurroundRule", "SelectStatement">>,
     <<"ParensSurroundRule", "CommaDelimitedRule", "Ident">>,
     <<"ParensSurroundRule", "CommaDelimitedRule", "Expression">>,
     <<"CommaDelimitedRule", "ParensSurroundRule", "CommaDelimitedRule", "Expression">>}

MaxRuleLen == 3

MaxOps == 3

MaxConstraints == 2

RuleAlphabet ==
    {"a", "1", "Plus", "LeftParen", "RightParen", "Comma", "Select", "Create"}

Entries == {0, 1}

\* Expressions of atoms joined by binary operators: 1 op 2 op 3 ...
ExprOps == {"Asterisk", "Plus", "Minus", "DoublePipe", "Equal", "And", "Or"}

ExprAtoms == <<"1", "2", "3", "a", "b", "4">>

FlatExpr(ops) ==
    [i \in 1..(2 * Len(ops) + 1) |->
        IF i % 2 = 1 THEN ExprAtoms[(((i - 1) \div 2) % Len(ExprAtoms)) + 1]
        ELSE ops[i \div 2]]

FlatExprInputs ==
    {FlatExpr(ops) \o term : ops \in SeqsUpTo(ExprOps, MaxOps),
                             term \in {<<>>, <<"Semicolon">>}}

\* Signed expressions: a sign before a b 1 ... joined by operators, and a sign
\* before a token that starts no operand.
SignTokens == {"Plus", "Minus"}

SignedAtoms == <<"a", "b", "1", "2", "3", "'s'">>

SignedExpr(sign, ops) ==
    <<sign>> \o [i \in 1..(2 * Len(ops) + 1) |->
                    IF i % 2 = 1 THEN SignedAtoms[(((i - 1) \div 2) % Len(SignedAtoms)) + 1]
                    ELSE ops[i \div 2]]

SignStops == {<<>>, <<"Semicolon">>, <<"RightParen">>, <<"Asterisk">>, <<"Comma">>, <<"From">>}

SignedExprInputs ==
    {SignedExpr(sign, ops) \o term : sign \in SignTokens, ops \in SeqsUpTo(ExprOps, MaxOps),
                                     term \in {<<>>, <<"Semicolon">>}}
    \cup {<<sign>> \o stop : sign \in SignTokens, stop \in SignStops}

\* CREATE TABLE statements, a column's constraints drawn from every series
\* of up to MaxConstraints constraints.
ConstraintSet ==
    {Constraint(None, <<"PrimaryKey">>), Constraint(None, <<"Nullable">>),
     Constraint(Some("b"), <<"Unique">>),
     Constraint(None, <<"ForeignKey", TableT, Some(<<"a", "b">>)>>),
     Constraint(Some("a"), <<"ForeignKey", TableT, None>>)}

ConstraintSeries == SeqsUpTo(ConstraintSet, MaxConstraints)

ColumnSet ==
    {Column("a", "INT", sa[1], sa[2], cs) :
        sa \in {<<None, None>>, <<Some("3"), Some(Some("2"))>>},
        cs \in ConstraintSeries}

ColumnId == Column("id", "INT", None, None, <<Constraint(None, <<"PrimaryKey">>)>>)

ColumnName == Column("name", "TEXT", None, None, <<Constraint(None, <<"Nullable">>)>>)

CreateTables ==
    {[table |-> TableT, columns |-> cs] :
        cs \in {<<ColumnId, ColumnName>>}
               \cup {<<c>> : c \in ColumnSet} \cup {<<ColumnId, c>> : c \in ColumnSet}
               \cup {<<c, ColumnName>> : c \in ColumnSet}
               \cup {<<ColumnId, c, ColumnName>> : c \in ColumnSet}}

SeriesStops == {<<>>, <<"Comma">>, <<"RightParen">>, <<"a">>, <<"Key">>}

InitRule ==
    \/ /\ rule \in Rules
       /\ tokens \in SeqsUpTo(RuleAlphabet, MaxRuleLen)
       /\ entry \in {e \in Entries : e <= Len(tokens)}
       /\ source = None
    \/ /\ rule = <<"Expression">>
       /\ tokens \in FlatExprInputs
       /\ entry = 0
       /\ source = None
    \/ /\ rule = <<"Expression">>
       /\ tokens \in SignedExprInputs
       /\ entry = 0
       /\ source = None
    \/ /\ rule = <<"CreateTableStatement">>
       /\ entry = 0
       /\ \E t \in CreateTables :
              /\ tokens = WriteCreateTable(t) \o <<"Semicolon">>
              /\ source = Some(t)
    \/ /\ rule = <<"CreateTableColumnConstraint">>
       /\ entry = 0
       /\ \E cs \in ConstraintSeries, stop \in SeriesStops :
              /\ tokens = WriteConstraints(cs) \o stop
              /\ source = Some(cs)

InitRules == InitRule /\ InitRest

call_parse ==
    /\ rule \in Rules
    /\ call = "none"
    /\ out' = Rule_parse(rule, tokens, entry)
    /\ pos' = out'.pos
    /\ call' = "parse"
    /\ UNCHANGED <<tokens, source, rule, min_precedence, entry, statements>>

call_parse_lookahead ==
    /\ rule \in Rules
    /\ call = "none"
    /\ out' = parse_lookahead(rule, tokens, entry)
    /\ pos' = out'.pos
    /\ call' = "parse_lookahead"
    /\ UNCHANGED <<tokens, source, rule, min_precedence, entry, statements>>

call_parse_series ==
    /\ rule = <<"CreateTableColumnConstraint">>
    /\ call = "none"
    /\ out' = parse_series(rule, tokens, entry)
    /\ pos' = out'.pos
    /\ call' = "parse_series"
    /\ UNCHANGED <<tokens, source, rule, min_precedence, entry, statements>>

call_parse_precedence ==
    /\ rule = <<"Expression">>
    /\ call = "none"
    /\ \E m \in 0..UnaryOp_precedence :
           /\ min_precedence' = m
           /\ out' = Expression_parse_precedence(tokens, entry, m)
    /\ pos' = out'.pos
    /\ call' = "parse_precedence"
    /\ UNCHANGED <<tokens, source, rule, entry, statements>>

NextRules ==
    call_parse \/ call_parse_lookahead \/ call_parse_series \/ call_parse_precedence

SpecRules == InitRules /\ [][NextRules]_vars

(***************************************************************************)
(* impl fmt::Display for RuleError, as the pieces write! puts together.    *)
(***************************************************************************)
Display(e) ==
    CASE e.kind \in {"ExpectingFirst", "Expecting"} /\ e.tok # NoToken ->
             <<"Expecting ", e.ctx, "; got ", e.tok>>
      [] e.kind \in {"ExpectingFirst", "Expecting"} /\ e.tok = NoToken ->
             <<"Expecting ", e.ctx, "; got no more tokens">>
      [] e.kind = "NoMoreTokens" -> <<"No more tokens">>

Returned == rule = <<"parse">> /\ out.kind # "Pending"

ReturnedErr == Returned /\ out.kind \in {"ExpectingFirst", "Expecting", "NoMoreTokens"}

(***************************************************************************)
(* C1: parse returns Ok only with every token consumed: it never returns   *)
(* Ok while unconsumed tokens remain.                                      *)
(***************************************************************************)
C1_AllOrNothing == (Returned /\ out.kind = "Ok") => pos = Len(tokens)

(***************************************************************************)
(* C6: every error parse returns renders as "Expecting {context}; got      *)
(* {token}" or "Expecting {context}; got no more tokens".                  *)
(***************************************************************************)
C6_ErrorRenders ==
    ReturnedErr =>
        /\ Display(out)[1] = "Expecting "
        /\ Len(Display(out)) >= 3
        /\ Display(out)[3] \in {"; got ", "; got no more tokens"}

(***************************************************************************)
(* C7: when the statement at the cursor is SELECT followed by a token that *)
(* is neither `*` nor the start of an expression, parse returns            *)
(* Expecting("* or expression for SELECT column", that token).             *)
(***************************************************************************)
StartsSelectColumn(t) ==
    t \in {"Asterisk", "Plus", "Minus", "LeftParen"}
          \cup IdentTokens \cup StringTokens \cup NumberTokens

SelectWithoutColumn(toks, p) ==
    /\ p + 2 <= Len(toks)
    /\ toks[p + 1] = "Select"
    /\ ~StartsSelectColumn(toks[p + 2])

C7_SelectColumnEscalated ==
    (Returned /\ SelectWithoutColumn(tokens, pos)) =>
        /\ out.kind = "Expecting"
        /\ out.ctx = "* or expression for SELECT column"
        /\ out.tok = tokens[pos + 2]

C7_Witness ==
    /\ Returned
    /\ tokens = <<"Select", "From", "t", "Semicolon">>
    /\ out.kind = "Expecting"
    /\ out.tok = "From"

(***************************************************************************)
(* C3: a written-out program (valid statements each followed by `;`, and   *)
(* bare `;`) parses to Ok with exactly its statements, in order, and the   *)
(* whole input consumed; a bare `;` adds nothing.                          *)
(***************************************************************************)
StatementsOf(prog) == SelectSeq(prog, LAMBDA it : it[1] # "Empty")

IsPrefix(a, b) == Len(a) <= Len(b) /\ \A i \in 1..Len(a) : a[i] = b[i]

C3_ValidProgramParses ==
    (rule = <<"parse">> /\ IsSome(source)) =>
        /\ out.kind \in {"Pending", "Ok"}
        /\ IsPrefix(statements, StatementsOf(source[2]))
        /\ out.kind = "Ok" =>
               /\ out.val = StatementsOf(source[2])
               /\ pos = Len(tokens)

C3_Witness ==
    /\ Returned
    /\ IsSome(source)
    /\ Len(source[2]) = 2
    /\ source[2][1] = <<"Empty">>
    /\ source[2][2][1] = "Insert"
    /\ Len(out.val) = 1
    /\ out.val[1][1] = "Insert"

(***************************************************************************)
(* C10: parse terminates: every loop that repeats a lookahead (the driver  *)
(* loop over Statement, parse_series over a column's constraints, the      *)
(* comma loop, the operator loop) advances the cursor on each iteration    *)
(* that continues, at every position of the input, and the driver's cursor *)
(* never passes the end of the input nor falls behind the number of        *)
(* statements it has taken.  The input never changes, so the positions are *)
(* swept in the state the call starts in.                                  *)
(***************************************************************************)
Advances(r, p) == (r.kind = "Ok" /\ IsSome(r.val)) => r.pos > p

CommaRules ==
    {<<"SelectColumn">>, <<"TableOrSubquery">>, <<"Expression">>,
     <<"CreateTableColumn">>, <<"Ident">>,
     <<"ParensSurroundRule", "CommaDelimitedRule", "Expression">>}

C10_LoopsAdvance ==
    rule = <<"parse">> =>
        /\ pos <= Len(tokens)
        /\ Len(statements) <= pos
        /\ call = "none" =>
               \A p \in 0..Len(tokens) :
                   /\ Advances(parse_lookahead(<<"Statement">>, tokens, p), p)
                   /\ Advances(parse_lookahead(<<"CreateTableColumnConstraint">>,
                                               tokens, p), p)
                   /\ Advances(parse_lookahead(<<"BinaryOp">>, tokens, p), p)
                   /\ \A R \in CommaRules :
                          pop_if_token(tokens, p, "Comma") =>
                              Advances(parse_lookahead(R, tokens, p + 1), p)

C10_Witness ==
    /\ Returned
    /\ out.kind = "Ok"
    /\ Len(statements) = 2
    /\ statements[1][1] = "Create"
    /\ statements[2][1] = "Select"
    /\ statements[2][2].group_by # <<>>

(***************************************************************************)
(* C2: a rule's parse function returns ExpectingFirst only when it has     *)
(* consumed no token: the cursor is where it was at entry.                 *)
(***************************************************************************)
C2_ExpectingFirstConsumesNothing ==
    (call = "parse" /\ rule \in Rules /\ out.kind = "ExpectingFirst") => pos = entry

(***************************************************************************)
(* The reference precedence parser: the tree of atom (op atom)* is split   *)
(* at the rightmost operator of lowest binding power.                      *)
(***************************************************************************)
IsAtom(toks, i) ==
    /\ i <= Len(toks)
    /\ \/ toks[i] \in NumberTokens \cup StringTokens
       \/ /\ toks[i] \in IdentTokens
          /\ ~(i < Len(toks) /\ toks[i + 1] \in {"LeftParen", "Dot"})

RECURSIVE FlatEnd(_, _)
FlatEnd(toks, i) ==
    IF i < Len(toks) /\ toks[i + 1] \in BinaryOpTokens /\ IsAtom(toks, i + 2)
    THEN FlatEnd(toks, i + 2)
    ELSE i

\* An expression of atoms and binary operators starts at p and a token that
\* is no binary operator follows it.
IsFlatExpr(toks, p) ==
    /\ IsAtom(toks, p + 1)
    /\ FlatEnd(toks, p + 1) < Len(toks)
    /\ toks[FlatEnd(toks, p + 1) + 1] \notin BinaryOpTokens

BindingPower(t) ==
    CASE t = "Asterisk" -> 5
      [] t \in {"Plus", "Minus", "Ampersand", "Pipe", "DoublePipe"} -> 4
      [] t \in {"Equal", "NotEqual", "LessThan", "LessThanOrEqual", "GreaterThan",
                "GreaterThanOrEqual"} -> 3
      [] t = "And" -> 2
      [] t = "Or" -> 1

AtomNode(t) ==
    IF t \in IdentTokens THEN <<"Ident", t>>
    ELSE IF t \in NumberTokens THEN <<"Number", t>>
    ELSE <<"StringLiteral", t>>

OpPositions(lo, hi) == {k \in lo..hi : (k - lo) % 2 = 1}

RootOp(toks, lo, hi) ==
    CHOOSE k \in OpPositions(lo, hi) :
        \A j \in OpPositions(lo, hi) :
            \/ BindingPower(toks[j]) > BindingPower(toks[k])
            \/ BindingPower(toks[j]) = BindingPower(toks[k]) /\ j <= k

RECURSIVE RefTree(_, _, _)
RefTree(toks, lo, hi) ==
    IF lo = hi THEN AtomNode(toks[lo])
    ELSE LET k == RootOp(toks, lo, hi)
         IN  <<"BinaryOp", BinaryOp_of(toks[k]), RefTree(toks, lo, k - 1),
               RefTree(toks, k + 1, hi)>>

RECURSIVE FirstBelow(_, _, _)
FirstBelow(toks, i, m) ==
    IF i < Len(toks) /\ toks[i + 1] \in BinaryOpTokens /\ IsAtom(toks, i + 2)
       /\ BindingPower(toks[i + 1]) >= m
    THEN FirstBelow(toks, i + 2, m)
    ELSE i

C5_LookaheadLeaksNoTokens ==
    /\ call = "parse_lookahead" =>
           IF Rule_parse(rule, tokens, entry).kind = "Ok"
           THEN /\ out.kind = "Ok"
                /\ IsSome(out.val)
                /\ pos = Rule_parse(rule, tokens, entry).pos
           ELSE /\ pos = entry
                /\ out.kind = "Ok" => out.val = None
    /\ (call = "parse_precedence" /\ IsFlatExpr(tokens, entry)) =>
           /\ out.kind = "Ok"
           /\ pos = FirstBelow(tokens, entry + 1, min_precedence)

C5_Witness ==
    /\ call = "parse_lookahead"
    /\ rule = <<"ParensSurroundRule", "Expression">>
    /\ tokens = <<"LeftParen", "a", "Comma">>
    /\ entry = 0
    /\ out.kind = "Expecting"
    /\ pos = 0

(***************************************************************************)
(* C8: a CREATE TABLE statement yields one column per written column, in   *)
(* order, each with exactly the constraints written after its type; the    *)
(* constraint series stops at the first token that starts no constraint    *)
(* and leaves the cursor on it.                                            *)
(***************************************************************************)
C8_ColumnsAndConstraints ==
    /\ (call = "parse" /\ rule = <<"CreateTableStatement">> /\ IsSome(source)) =>
           /\ out.kind = "Ok"
           /\ Len(out.val.columns) = Len(source[2].columns)
           /\ \A i \in 1..Len(source[2].columns) :
                  /\ out.val.columns[i].constraints = source[2].columns[i].constraints
                  /\ out.val.columns[i] = source[2].columns[i]
           /\ pos = Len(tokens) - 1
    /\ (call = "parse_series" /\ IsSome(source)) =>
           /\ out.kind = "Ok"
           /\ out.val = source[2]
           /\ pos = Len(WriteConstraints(source[2]))

C8_Witness ==
    /\ call = "parse"
    /\ rule = <<"CreateTableStatement">>
    /\ tokens = <<"Table", "t", "LeftParen", "id", "INT", "Primary", "Key", "Comma",
                  "name", "TEXT", "Null", "RightParen", "Semicolon">>
    /\ out.kind = "Ok"
    /\ Len(out.val.columns) = 2
    /\ out.val.columns[1].constraints = <<Constraint(None, <<"PrimaryKey">>)>>
    /\ out.val.columns[2].constraints = <<Constraint(None, <<"Nullable">>)>>

(***************************************************************************)
(* C9: ParensSurroundRule<R> is soft only on a missing `(`; after `(` an   *)
(* ExpectingFirst of R or a missing `)` is Expecting.                      *)
(* CommaDelimitedRule<R> passes the first item's failure on as it is, and  *)
(* turns an ExpectingFirst after a comma into Expecting; a list it returns *)
(* has one item more than the commas it consumed.  Expecting and           *)
(* NoMoreTokens pass through both unchanged.                               *)
(***************************************************************************)
RECURSIVE Depth(_, _, _)
Depth(toks, from, to) ==
    IF to <= from THEN 0
    ELSE Depth(toks, from, to - 1)
         + (IF toks[to] = "LeftParen" THEN 1 ELSE IF toks[to] = "RightParen" THEN -1 ELSE 0)

CommasConsumed(toks, from, to) ==
    Cardinality({i \in (from + 1)..to :
                    toks[i] = "Comma" /\ Depth(toks, from, i - 1) = 0})

ParensContract(R, toks, p, o) ==
    IF ~pop_if_token(toks, p, "LeftParen")
    THEN o.kind = "ExpectingFirst" /\ o.pos = p /\ o.tok = peek(toks, p)
    ELSE LET r == Rule_parse(R, toks, p + 1)
         IN  CASE r.kind = "ExpectingFirst" -> o = [r EXCEPT !.kind = "Expecting"]
               [] r.kind = "Ok" /\ pop_if_token(toks, r.pos, "RightParen") ->
                      o.kind = "Ok" /\ o.val = r.val /\ o.pos = r.pos + 1
               [] r.kind = "Ok" /\ ~pop_if_token(toks, r.pos, "RightParen") ->
                      o.kind = "Expecting" /\ o.ctx = ")" /\ o.tok = peek(toks, r.pos)
               [] OTHER -> o = r

CommaContract(R, toks, p, o) ==
    LET first == Rule_parse(R, toks, p)
        second == Rule_parse(R, toks, first.pos + 1)
    IN  /\ first.kind # "Ok" => o = first
        /\ o.kind = "Ok" =>
               /\ Len(o.val) >= 1
               /\ Len(o.val) = CommasConsumed(toks, p, o.pos) + 1
        /\ first.kind = "Ok" => o.kind # "ExpectingFirst"
        /\ (first.kind = "Ok" /\ pop_if_token(toks, first.pos, "Comma")
            /\ second.kind # "Ok") => o = rule_result_not_first(second)

C9_CombinatorsCommit ==
    (call = "parse" /\ rule \in Rules) =>
        /\ rule[1] = "ParensSurroundRule" => ParensContract(Tail(rule), tokens, entry, out)
        /\ rule[1] = "CommaDelimitedRule" => CommaContract(Tail(rule), tokens, entry, out)

C9_Witness ==
    /\ call = "parse"
    /\ rule = <<"CommaDelimitedRule", "Ident">>
    /\ tokens = <<"a", "Comma", "Plus">>
    /\ entry = 0
    /\ out.kind = "Expecting"
    /\ out.ctx = "identifier"
    /\ out.tok = "Plus"

(***************************************************************************)
(* C11: HAVING is reachable only after GROUP BY.  Every SelectStatement    *)
(* parse has produced (a statement, a subquery or an INSERT's source) with *)
(* having = Some(_) has a non-empty group_by; a SELECT statement that      *)
(* holds a HAVING token and no GROUP is answered with a fatal error; and   *)
(* when the SELECT rule meets GROUP without BY after it, parse returns     *)
(* Expecting("BY after GROUP", the token after GROUP).                     *)
(***************************************************************************)
RECURSIVE HavingNeedsGroupBy(_)
HavingNeedsGroupBy(s) ==
    /\ IsSome(s.having) => s.group_by # <<>>
    /\ \A i \in 1..Len(s.from[2]) :
           s.from[2][i][1] = "Subquery" => HavingNeedsGroupBy(s.from[2][i][2])

StatementHavingOk(st) ==
    CASE st[1] = "Select" -> HavingNeedsGroupBy(st[2])
      [] st[1] = "Insert" ->
             st[2].source[1] = "Select" => HavingNeedsGroupBy(st[2].source[2])
      [] OTHER -> TRUE

\* The tokens of the statement that starts at p: up to its `;` or the end.
StatementEnd(toks, p) ==
    IF \E i \in (p + 1)..Len(toks) : toks[i] = "Semicolon"
    THEN CHOOSE i \in (p + 1)..Len(toks) :
             toks[i] = "Semicolon" /\ \A j \in (p + 1)..(i - 1) : toks[j] # "Semicolon"
    ELSE Len(toks)

HavingWithoutGroup(toks, p) ==
    /\ pop_if_token(toks, p, "Select")
    /\ \E i \in (p + 1)..StatementEnd(toks, p) : toks[i] = "Having"
    /\ \A i \in (p + 1)..StatementEnd(toks, p) : toks[i] # "Group"

\* The position of GROUP when the SELECT at p has well-formed columns, FROM
\* and WHERE and GROUP comes next without BY after it; else -1.
GroupWithoutBy(toks, p) ==
    IF ~pop_if_token(toks, p, "Select") THEN -1
    ELSE LET c == CommaDelimitedRule_parse(<<"SelectColumn">>, toks, p + 1)
         IN  IF c.kind # "Ok" THEN -1
             ELSE LET f == From_parse(toks, c.pos)
                  IN  IF f.kind # "Ok" THEN -1
                      ELSE LET w == SelectStatement_where(toks, f.pos)
                           IN  IF /\ w.kind = "Ok"
                                  /\ pop_if_token(toks, w.pos, "Group")
                                  /\ ~pop_if_token(toks, w.pos + 1, "By")
                               THEN w.pos
                               ELSE -1

C11_HavingOnlyAfterGroupBy ==
    rule = <<"parse">> =>
        /\ \A i \in 1..Len(statements) : StatementHavingOk(statements[i])
        /\ (Returned /\ HavingWithoutGroup(tokens, pos)) => out.kind = "Expecting"
        /\ (Returned /\ GroupWithoutBy(tokens, pos) >= 0) =>
               /\ out.kind = "Expecting"
               /\ out.ctx = "BY after GROUP"
               /\ out.tok = peek(tokens, GroupWithoutBy(tokens, pos) + 1)

C11_Witness ==
    /\ Returned
    /\ tokens = <<"Select", "Asterisk", "From", "t", "Having", "a", "Semicolon">>
    /\ out.kind = "Expecting"
    /\ out.ctx = "semicolon"
    /\ out.tok = "Having"
    /\ statements = <<>>

(***************************************************************************)
(* C12: unary signs.  A leading `-` binds tighter than every binary        *)
(* operator: in -x op y ... the tree is the reference tree of x op y ...   *)
(* with Negate(x) in the place of x.  A leading `+` adds no node: `+e`     *)
(* gives the result of `e`.  A sign followed by a token that starts no     *)
(* operand, or by nothing, is Expecting("identifier or number", that       *)
(* token), from parse and from parse_lookahead alike.                      *)
(***************************************************************************)
RECURSIVE NegatedRefTree(_, _, _)
NegatedRefTree(toks, lo, hi) ==
    IF lo = hi THEN <<"UnaryOp", "Negate", AtomNode(toks[lo])>>
    ELSE LET k == RootOp(toks, lo, hi)
         IN  <<"BinaryOp", BinaryOp_of(toks[k]), NegatedRefTree(toks, lo, k - 1),
               RefTree(toks, k + 1, hi)>>

StartsOperand(t) ==
    t \in {"Plus", "Minus", "LeftParen"} \cup IdentTokens \cup StringTokens \cup NumberTokens

====
